---- MODULE Spec2Model ----
(***************************************************************************)
(* The hero typing animation of the portfolio page (src/app.js and         *)
(* src/unnamed/part_000): type() and erase() write a playlist of strings   *)
(* into the text sink one character at a time, each step scheduling its    *)
(* successor with setTimeout.                                              *)
(*                                                                         *)
(* Strings are sequences of one-character strings.  Indices are 0-based as *)
(* in the source; the TLA+ sequences underneath are 1-based.               *)
(***************************************************************************)
EXTENDS Integers, Sequences, FiniteSets, TLC

\* Bounds of the playlists and of the sink's initial content.
MaxLen == 2
MaxTexts == 2
MaxSink == 1

Chars == {"a", "b"}

\* The non-empty strings of at most n characters over Chars.
RECURSIVE StringsUpTo(_)
StringsUpTo(n) ==
    IF n = 0 THEN {}
    ELSE LET shorter == StringsUpTo(n - 1)
         IN  shorter \cup {<<c>> : c \in Chars}
                     \cup {Append(s, c) : s \in shorter, c \in Chars}

\* The playlists of at most n generated strings.
RECURSIVE PlaylistsUpTo(_)
PlaylistsUpTo(n) ==
    IF n = 0 THEN {}
    ELSE LET fewer == PlaylistsUpTo(n - 1)
         IN  fewer \cup {<<s>> : s \in StringsUpTo(MaxLen)}
                   \cup {Append(p, s) : p \in fewer, s \in StringsUpTo(MaxLen)}

\* The playlist of the page.
PortfolioTexts ==
    << <<"H", "i", ",", " ", "I", "'", "m", " ", "J", "a", "c", "k", "s",
         "o", "n", " ", "K", "o", "v", "a", "r", "i", "k">>,
       <<"W", "e", "l", "c", "o", "m", "e", " ", "T", "o", " ", "M", "y",
         " ", "P", "o", "r", "t", "f", "o", "l", "i", "o">> >>

Playlists == PlaylistsUpTo(MaxTexts) \cup {PortfolioTexts}

\* What the element with id "typed-text" may contain when the page has loaded.
InitialSinks == {<<>>} \cup StringsUpTo(MaxSink)

typingDelay == 150
erasingDelay == 100
newTextDelay == 2000
nextTextPause == 1100

VARIABLES
    texts,         \* the playlist
    sinkExists,    \* the element with id "typed-text" was found
    textContent,   \* the text of that element
    textIndex,     \* position in the playlist
    charIndex,     \* number of characters of the current string rendered
    timers,        \* the pending setTimeout callbacks, in scheduling order
    started,       \* the DOMContentLoaded handler has reached the start guard
    threw,         \* a step raised a TypeError
    lastStep,      \* history: the last animator step that ran
    fullyTyped,    \* history: the current string was complete since the last advance
    rendered,      \* history: the sink's text after each step of the current period
    firstPeriod,   \* history: the same sequence, for the first period
    periodDone,    \* history: the playlist has been played through once
    erasedOnce,    \* history: an erase step has removed a character
    variantB,      \* the animation of src/unnamed/part_000, run beside this one
    variant,       \* the script the page runs: "app" (src/app.js) or "full" (part_000)
    dom,           \* which elements the document has
    theme,         \* ThemeManager, local storage and the document's theme attributes
    nav,           \* Navigation and the classes its elements carry
    probe,         \* one field put through validateField of both scripts
    form,          \* the contact form, its banners and the timers of FormManager
    deb            \* one function returned by debounce of app.js, on a clock

animator == <<textContent, textIndex, charIndex, timers, threw>>
history == <<lastStep, fullyTyped, rendered, firstPeriod, periodDone, erasedOnce>>
\* Everything on the page that the animation of src/app.js does not own.
others == <<variantB, variant, dom, theme, nav, probe, form, deb>>
vars == <<texts, sinkExists, started, animator, history, others>>

\* String.prototype.charAt: the character at index i, or "" out of range.
charAt(s, i) == IF i >= 0 /\ i < Len(s) THEN <<s[i + 1]>> ELSE <<>>

\* String.prototype.substring: both ends clamped to 0..length, then ordered.
substring(s, from, to) ==
    LET clamp(x) == IF x < 0 THEN 0 ELSE IF x > Len(s) THEN Len(s) ELSE x
        lo == IF clamp(from) <= clamp(to) THEN clamp(from) ELSE clamp(to)
        hi == IF clamp(from) <= clamp(to) THEN clamp(to) ELSE clamp(from)
    IN  SubSeq(s, lo + 1, hi)

\* setTimeout(fn, delay) on the timers left pending.
setTimeout(pending, fn, delay) == Append(pending, [fn |-> fn, delay |-> delay])

RemoveAt(s, i) == SubSeq(s, 1, i - 1) \o SubSeq(s, i + 1, Len(s))

\* Writing to the sink while it is null raises a TypeError and ends the step.
TypeError(pending) ==
    /\ threw' = TRUE
    /\ timers' = pending
    /\ UNCHANGED <<textContent, textIndex, charIndex>>

\* type() adding 2 to charIndex for each character it appends.
type_skipsChar(pending) ==
    IF charIndex < Len(texts[textIndex + 1])
    THEN IF sinkExists
         THEN /\ textContent' = textContent \o charAt(texts[textIndex + 1], charIndex)
              /\ charIndex' = charIndex + 2
              /\ timers' = setTimeout(pending, "type", typingDelay)
              /\ UNCHANGED <<textIndex, threw>>
         ELSE TypeError(pending)
    ELSE /\ timers' = setTimeout(pending, "erase", newTextDelay)
         /\ UNCHANGED <<textContent, textIndex, charIndex, threw>>

\* type() scheduling nothing once the string is complete.
type_noPause(pending) ==
    IF charIndex < Len(texts[textIndex + 1])
    THEN IF sinkExists
         THEN /\ textContent' = textContent \o charAt(texts[textIndex + 1], charIndex)
              /\ charIndex' = charIndex + 1
              /\ timers' = setTimeout(pending, "type", typingDelay)
              /\ UNCHANGED <<textIndex, threw>>
         ELSE TypeError(pending)
    ELSE /\ timers' = pending
         /\ UNCHANGED <<textContent, textIndex, charIndex, threw>>

\* type() scheduling its successor twice after a character.
type_schedulesTwice(pending) ==
    IF charIndex < Len(texts[textIndex + 1])
    THEN IF sinkExists
         THEN /\ textContent' = textContent \o charAt(texts[textIndex + 1], charIndex)
              /\ charIndex' = charIndex + 1
              /\ timers' = setTimeout(setTimeout(pending, "type", typingDelay),
                                      "type", typingDelay)
              /\ UNCHANGED <<textIndex, threw>>
         ELSE TypeError(pending)
    ELSE /\ timers' = setTimeout(pending, "erase", newTextDelay)
         /\ UNCHANGED <<textContent, textIndex, charIndex, threw>>

\* type() clearing the sink itself and typing again once the string is complete.
type_skipsErase(pending) ==
    IF charIndex < Len(texts[textIndex + 1])
    THEN IF sinkExists
         THEN /\ textContent' = textContent \o charAt(texts[textIndex + 1], charIndex)
              /\ charIndex' = charIndex + 1
              /\ timers' = setTimeout(pending, "type", typingDelay)
              /\ UNCHANGED <<textIndex, threw>>
         ELSE TypeError(pending)
    ELSE /\ textContent' = <<>>
         /\ charIndex' = 0
         /\ timers' = setTimeout(pending, "type", newTextDelay)
         /\ UNCHANGED <<textIndex, threw>>

\* function type(), run with the timers `pending` left after the one that fired.
type(pending) ==
    IF charIndex < Len(texts[textIndex + 1])
    THEN IF sinkExists
         THEN /\ textContent' = textContent \o charAt(texts[textIndex + 1], charIndex)
              /\ charIndex' = charIndex + 1
              /\ timers' = setTimeout(pending, "type", typingDelay)
              /\ UNCHANGED <<textIndex, threw>>
         ELSE TypeError(pending)
    ELSE /\ timers' = setTimeout(pending, "erase", newTextDelay)
         /\ UNCHANGED <<textContent, textIndex, charIndex, threw>>

\* erase() without the reset of textIndex after the last entry.
erase_noWrap(pending) ==
    IF charIndex > 0
    THEN IF sinkExists
         THEN /\ textContent' = substring(texts[textIndex + 1], 0, charIndex - 1)
              /\ charIndex' = charIndex - 1
              /\ timers' = setTimeout(pending, "erase", erasingDelay)
              /\ UNCHANGED <<textIndex, threw>>
         ELSE TypeError(pending)
    ELSE /\ textIndex' = textIndex + 1
         /\ timers' = setTimeout(pending, "type", typingDelay + nextTextPause)
         /\ UNCHANGED <<textContent, charIndex, threw>>

\* erase() removing a character while charIndex >= 0.
erase_belowZero(pending) ==
    IF charIndex >= 0
    THEN IF sinkExists
         THEN /\ textContent' = substring(texts[textIndex + 1], 0, charIndex - 1)
              /\ charIndex' = charIndex - 1
              /\ timers' = setTimeout(pending, "erase", erasingDelay)
              /\ UNCHANGED <<textIndex, threw>>
         ELSE TypeError(pending)
    ELSE /\ textIndex' = IF textIndex + 1 >= Len(texts) THEN 0 ELSE textIndex + 1
         /\ timers' = setTimeout(pending, "type", typingDelay + nextTextPause)
         /\ UNCHANGED <<textContent, charIndex, threw>>

\* erase() advancing textIndex by 2.
erase_skipsEntry(pending) ==
    IF charIndex > 0
    THEN IF sinkExists
         THEN /\ textContent' = substring(texts[textIndex + 1], 0, charIndex - 1)
              /\ charIndex' = charIndex - 1
              /\ timers' = setTimeout(pending, "erase", erasingDelay)
              /\ UNCHANGED <<textIndex, threw>>
         ELSE TypeError(pending)
    ELSE /\ textIndex' = IF textIndex + 2 >= Len(texts) THEN 0 ELSE textIndex + 2
         /\ timers' = setTimeout(pending, "type", typingDelay + nextTextPause)
         /\ UNCHANGED <<textContent, charIndex, threw>>

\* erase() pausing only typingDelay before the next string.
erase_shortPause(pending) ==
    IF charIndex > 0
    THEN IF sinkExists
         THEN /\ textContent' = substring(texts[textIndex + 1], 0, charIndex - 1)
              /\ charIndex' = charIndex - 1
              /\ timers' = setTimeout(pending, "erase", erasingDelay)
              /\ UNCHANGED <<textIndex, threw>>
         ELSE TypeError(pending)
    ELSE /\ textIndex' = IF textIndex + 1 >= Len(texts) THEN 0 ELSE textIndex + 1
         /\ timers' = setTimeout(pending, "type", typingDelay)
         /\ UNCHANGED <<textContent, charIndex, threw>>

\* erase() cutting the last character off the sink's own text.
erase_cutsSink(pending) ==
    IF charIndex > 0
    THEN IF sinkExists
         THEN /\ textContent' = substring(textContent, 0, Len(textContent) - 1)
              /\ charIndex' = charIndex - 1
              /\ timers' = setTimeout(pending, "erase", erasingDelay)
              /\ UNCHANGED <<textIndex, threw>>
         ELSE TypeError(pending)
    ELSE /\ textIndex' = IF textIndex + 1 >= Len(texts) THEN 0 ELSE textIndex + 1
         /\ timers' = setTimeout(pending, "type", typingDelay + nextTextPause)
         /\ UNCHANGED <<textContent, charIndex, threw>>

\* function erase(), run with the timers `pending` left after the one that fired.
erase(pending) ==
    IF charIndex > 0
    THEN IF sinkExists
         THEN /\ textContent' = substring(texts[textIndex + 1], 0, charIndex - 1)
              /\ charIndex' = charIndex - 1
              /\ timers' = setTimeout(pending, "erase", erasingDelay)
              /\ UNCHANGED <<textIndex, threw>>
         ELSE TypeError(pending)
    ELSE /\ textIndex' = IF textIndex + 1 >= Len(texts) THEN 0 ELSE textIndex + 1
         /\ timers' = setTimeout(pending, "type", typingDelay + nextTextPause)
         /\ UNCHANGED <<textContent, charIndex, threw>>

\* The delays of src/unnamed/part_000.
delaysB == [typing |-> 150, erasing |-> 100, newText |-> 2000, nextText |-> 1100]

\* The animation state of src/unnamed/part_000 when its page has loaded with
\* the text `sink` in the element with id "typed-text".
LoadedB(sink) ==
    [textContent |-> sink, textIndex |-> 0, charIndex |-> 0,
     timers |-> <<>>, threw |-> FALSE, started |-> FALSE]

\* type() of part_000, pausing 1000 ms less than app.js before the erase phase.
typeB_shortPause(b, pending) ==
    IF b.charIndex < Len(texts[b.textIndex + 1])
    THEN IF sinkExists
         THEN [b EXCEPT !.textContent = @ \o charAt(texts[b.textIndex + 1], b.charIndex),
                        !.charIndex = @ + 1,
                        !.timers = setTimeout(pending, "type", delaysB.typing)]
         ELSE [b EXCEPT !.threw = TRUE, !.timers = pending]
    ELSE [b EXCEPT !.timers = setTimeout(pending, "erase", delaysB.newText - 1000)]

\* function type() of part_000 on the state b, with the timers `pending` left.
typeB(b, pending) ==
    IF b.charIndex < Len(texts[b.textIndex + 1])
    THEN IF sinkExists
         THEN [b EXCEPT !.textContent = @ \o charAt(texts[b.textIndex + 1], b.charIndex),
                        !.charIndex = @ + 1,
                        !.timers = setTimeout(pending, "type", delaysB.typing)]
         ELSE [b EXCEPT !.threw = TRUE, !.timers = pending]
    ELSE [b EXCEPT !.timers = setTimeout(pending, "erase", delaysB.newText)]

\* function erase() of part_000 on the state b, with the timers `pending` left.
eraseB(b, pending) ==
    IF b.charIndex > 0
    THEN IF sinkExists
         THEN [b EXCEPT !.textContent = substring(texts[b.textIndex + 1], 0, b.charIndex - 1),
                        !.charIndex = @ - 1,
                        !.timers = setTimeout(pending, "erase", delaysB.erasing)]
         ELSE [b EXCEPT !.threw = TRUE, !.timers = pending]
    ELSE [b EXCEPT !.textIndex = IF @ + 1 >= Len(texts) THEN 0 ELSE @ + 1,
                   !.timers = setTimeout(pending, "type",
                                         delaysB.typing + delaysB.nextText)]

\* The start guard of part_000: if (typedTextSpan) { type(); }
startB(b) ==
    IF sinkExists
    THEN typeB([b EXCEPT !.started = TRUE], b.timers)
    ELSE [b EXCEPT !.started = TRUE]

\* The timer of part_000 that is due fires, if there is one.
timerB(b) ==
    IF b.timers = <<>> THEN b
    ELSE IF Head(b.timers).fn = "type"
         THEN typeB(b, Tail(b.timers))
         ELSE eraseB(b, Tail(b.timers))

(***************************************************************************)
(* The rest of the page: theme, navigation and contact form.               *)
(***************************************************************************)

\* JavaScript's null, for a missing item, attribute or element.
null == "<null>"

\* The elements the scripts look up; a document may lack any of them.
BareDom ==
    [themeToggle |-> FALSE, themeIcon |-> FALSE,
     nav |-> FALSE, navToggle |-> FALSE, navMenu |-> FALSE,
     navMenuContainer |-> FALSE,
     toggleInNav |-> FALSE,   \* the toggle button is a descendant of #nav
     linksInNav |-> FALSE,    \* the navigation links are descendants of #nav
     links |-> {},            \* the sections the .nav__link elements point to
     sections |-> {},         \* the ids of the section[id] elements
     contactForm |-> FALSE]

\* The documents with the theme toggle.
ThemeDoms == {[BareDom EXCEPT !.themeToggle = TRUE, !.themeIcon = i] : i \in BOOLEAN}

\* The values earlier visits may have left under 'theme' in local storage: the
\* two themes the page writes, and one name it does not know.
StoredThemes == {"light", "dark", "auto"}

\* Theme state before ThemeManager is constructed.
ThemeAtLoad(stored, prefersDark) ==
    [stored |-> stored, prefersDark |-> prefersDark, currentTheme |-> null,
     dataTheme |-> null, dataColorScheme |-> null, icon |-> null, previous |-> null]

\* a || b for strings: b when a is null or empty.
OrElse(a, b) == IF a = null \/ a = "" THEN b ELSE a

\* ThemeManager.applyTheme
applyTheme(t, name) == [t EXCEPT !.dataTheme = name, !.dataColorScheme = name]

\* ThemeManager.updateThemeIcon
updateThemeIcon(t) ==
    IF dom.themeIcon
    THEN [t EXCEPT !.icon = IF t.currentTheme = "light" THEN "moon" ELSE "sun"]
    ELSE t

\* ThemeManager's constructor and init().
ThemeManager(t) ==
    LET current == OrElse(t.stored, IF t.prefersDark THEN "dark" ELSE "light")
    IN  updateThemeIcon(applyTheme([t EXCEPT !.currentTheme = current], current))

\* ThemeManager.toggle() writing the theme it leaves to local storage.
toggle_storesOld(t) ==
    LET flipped == IF t.currentTheme = "light" THEN "dark" ELSE "light"
        shown == updateThemeIcon(applyTheme([t EXCEPT !.currentTheme = flipped], flipped))
    IN  [shown EXCEPT !.stored = t.currentTheme, !.previous = t.currentTheme]

\* ThemeManager.toggle(); `previous` records the theme it leaves.
toggle(t) ==
    LET flipped == IF t.currentTheme = "light" THEN "dark" ELSE "light"
        shown == updateThemeIcon(applyTheme([t EXCEPT !.currentTheme = flipped], flipped))
    IN  [shown EXCEPT !.stored = flipped, !.previous = t.currentTheme]

\* The sections of a page with navigation, and those a link points to.
Sections == {"home", "about", "contact"}
LinkTargets == {"home", "about"}

\* Most entries one scroll-spy callback delivers.
MaxEntries == 2

\* The documents with navigation: any of the elements may be missing, and the
\* toggle button and the links may lie outside #nav.
NavDoms ==
    {d \in [themeToggle : {FALSE}, themeIcon : {FALSE},
            nav : BOOLEAN, navToggle : BOOLEAN, navMenu : BOOLEAN,
            navMenuContainer : BOOLEAN, toggleInNav : BOOLEAN,
            linksInNav : BOOLEAN, links : {{}, LinkTargets},
            sections : {Sections}, contactForm : {FALSE}] :
        /\ d.toggleInNav => d.nav /\ d.navToggle
        /\ d.linksInNav => d.nav /\ d.links # {}}

\* Navigation before its constructor, `active` being the links that carry
\* 'active' in the markup.  `event`, `calls` and `hit` are history: the latest
\* event the listeners of Navigation saw, the calls of toggleMobileMenu it led
\* to and, for a scroll-spy callback, the section of its last intersecting entry.
NavAtLoad(active) ==
    [isMenuOpen |-> FALSE, toggleActive |-> FALSE, menuActive |-> FALSE,
     containerActive |-> FALSE, bodyMenuOpen |-> FALSE, bodyOverflow |-> "",
     active |-> active, event |-> "none", calls |-> 0, hit |-> null]

\* The navigation as an event of the given kind finds it.
Event(n, kind) == [n EXCEPT !.event = kind, !.calls = 0, !.hit = null]

\* Navigation.toggleMobileMenu leaving the class of #nav-menu alone.
toggleMobileMenu_skipsMenu(n) ==
    LET open == ~n.isMenuOpen
        classes == [n EXCEPT !.isMenuOpen = open,
                             !.calls = @ + 1,
                             !.toggleActive = IF dom.navToggle THEN ~@ ELSE @,
                             !.containerActive = IF dom.navMenuContainer THEN ~@ ELSE @]
    IN  IF variant = "app"
        THEN [classes EXCEPT !.bodyMenuOpen = open]
        ELSE [classes EXCEPT !.bodyOverflow = IF open THEN "hidden" ELSE ""]

\* Navigation.toggleMobileMenu: classList.toggle on each element that exists;
\* app.js forces 'menu-open' on the body, part_000 sets the body's overflow.
toggleMobileMenu(n) ==
    LET open == ~n.isMenuOpen
        classes == [n EXCEPT !.isMenuOpen = open,
                             !.calls = @ + 1,
                             !.toggleActive = IF dom.navToggle THEN ~@ ELSE @,
                             !.menuActive = IF dom.navMenu THEN ~@ ELSE @,
                             !.containerActive = IF dom.navMenuContainer THEN ~@ ELSE @]
    IN  IF variant = "app"
        THEN [classes EXCEPT !.bodyMenuOpen = open]
        ELSE [classes EXCEPT !.bodyOverflow = IF open THEN "hidden" ELSE ""]

\* The click listener of the document closing the menu wherever the click fell.
documentClick_anyTarget(n, inside) ==
    IF n.isMenuOpen THEN toggleMobileMenu(n) ELSE n

\* The click listener of the document, for a target inside #nav or not:
\* isMenuOpen && !nav?.contains(e.target).
documentClick(n, inside) ==
    IF n.isMenuOpen /\ ~(dom.nav /\ inside) THEN toggleMobileMenu(n) ELSE n

\* The click listener of a navigation link.
linkClick(n) == IF n.isMenuOpen THEN toggleMobileMenu(n) ELSE n

\* The keydown listener of part_000 for Escape; the element .nav__menu is
\* #nav-menu, inside #nav.
escapeKey(n) ==
    IF dom.navMenu /\ n.menuActive THEN toggleMobileMenu(n) ELSE n

\* The entry sequences of at most n entries.
RECURSIVE EntriesUpTo(_, _)
EntriesUpTo(sections, n) ==
    IF n = 0 THEN {<<>>}
    ELSE LET fewer == EntriesUpTo(sections, n - 1)
         IN  fewer \cup {Append(es, [target |-> t, isIntersecting |-> i]) :
                            es \in fewer, t \in sections, i \in BOOLEAN}

\* The section of the last intersecting entry, null when none intersects.
LastIntersecting(entries) ==
    LET hits == {i \in DOMAIN entries : entries[i].isIntersecting}
    IN  IF hits = {} THEN null
        ELSE entries[CHOOSE i \in hits : \A j \in hits : j <= i].target

\* The scroll-spy callback marking the link without unmarking the others.
RECURSIVE spy_keepsOthers(_, _, _)
spy_keepsOthers(n, entries, k) ==
    IF k > Len(entries) THEN n
    ELSE LET entry == entries[k]
             activeLink == IF entry.target \in dom.links THEN entry.target ELSE null
             marked == IF activeLink # null
                       THEN [n EXCEPT !.active = @ \cup {activeLink}]
                       ELSE n
         IN  spy_keepsOthers(IF entry.isIntersecting THEN marked ELSE n, entries, k + 1)

\* The scroll-spy callback on the entries from position k on.
RECURSIVE spy(_, _, _)
spy(n, entries, k) ==
    IF k > Len(entries) THEN n
    ELSE LET entry == entries[k]
             activeLink == IF entry.target \in dom.links THEN entry.target ELSE null
             cleared == [n EXCEPT !.active = {}]
             marked == IF activeLink # null
                       THEN [cleared EXCEPT !.active = {activeLink}]
                       ELSE cleared
         IN  spy(IF entry.isIntersecting THEN marked ELSE n, entries, k + 1)

(***************************************************************************)
(* Field validation of the contact form.  A field is a record of its name, *)
(* its value, whether it is marked as in error (the class of app.js, the   *)
(* border colour of part_000) and the text of the .field-error element of  *)
(* its own form group, null when there is none.                            *)
(***************************************************************************)

\* Longest field value tried character by character, and longest run of letters.
MaxValueLen == 5
MaxRun == 11

Whitespace == {" ", "\t"}
ValueChars == {"a", " ", "@", "."}

\* The strings of at most n characters over ValueChars.
RECURSIVE ValuesUpTo(_)
ValuesUpTo(n) ==
    IF n = 0 THEN {<<>>}
    ELSE LET shorter == ValuesUpTo(n - 1)
         IN  shorter \cup {Append(v, c) : v \in shorter, c \in ValueChars}

\* n letters.
RECURSIVE Letters(_)
Letters(n) == IF n = 0 THEN <<>> ELSE Append(Letters(n - 1), "a")

\* The values a field is given, with or without blanks around them: every
\* short string for the address, runs of letters for the fields with a length.
FieldValues(name) ==
    LET cores == IF name = "email" THEN ValuesUpTo(MaxValueLen)
                 ELSE {Letters(n) : n \in 0..MaxRun} \cup {<<" ">>, <<"a", " ", "a">>}
    IN  {l \o v \o r : v \in cores, l \in {<<>>, <<" ">>}, r \in {<<>>, <<"\t">>}}

\* String.prototype.trim
RECURSIVE trim(_)
trim(v) ==
    IF v = <<>> THEN v
    ELSE IF Head(v) \in Whitespace THEN trim(Tail(v))
    ELSE IF v[Len(v)] \in Whitespace THEN trim(SubSeq(v, 1, Len(v) - 1))
    ELSE v

\* A match of [^\s@]+ against the whole of t.
NoSpaceNoAt(t) == t # <<>> /\ \A k \in DOMAIN t : t[k] \notin Whitespace \cup {"@"}

\* /^[^\s@]+@[^\s@]+\.[^\s@]+$/.test(v)
emailPattern(v) ==
    \E i, j \in DOMAIN v :
        /\ i < j
        /\ v[i] = "@"
        /\ v[j] = "."
        /\ NoSpaceNoAt(SubSeq(v, 1, i - 1))
        /\ NoSpaceNoAt(SubSeq(v, i + 1, j - 1))
        /\ NoSpaceNoAt(SubSeq(v, j + 1, Len(v)))

\* The names of the form's fields; "phone" has no rule.
FieldNames == {"name", "email", "subject", "message", "phone"}

\* FormManager.validationRules of app.js; 0 and FALSE stand for a property the
\* rule does not have.
validationRules ==
    [name |-> [minLength |-> 2, pattern |-> FALSE,
               message |-> "Name must be at least 2 characters long"],
     email |-> [minLength |-> 0, pattern |-> TRUE,
                message |-> "Please enter a valid email address"],
     subject |-> [minLength |-> 5, pattern |-> FALSE,
                  message |-> "Subject must be at least 5 characters long"],
     message |-> [minLength |-> 10, pattern |-> FALSE,
                  message |-> "Message must be at least 10 characters long"]]

\* FormManager.showFieldError
showFieldError(f, message) == [f EXCEPT !.marked = TRUE, !.error = message]

\* FormManager.clearFieldError
clearFieldError(f) == [f EXCEPT !.marked = FALSE, !.error = null]

\* validateField of app.js testing the value as typed, blanks included.
validateField_noTrim(f) ==
    LET value == f.value
    IN  IF f.name \notin DOMAIN validationRules THEN [ok |-> TRUE, field |-> f]
        ELSE LET rule == validationRules[f.name]
                 cleared == clearFieldError(f)
                 isValid == IF rule.minLength # 0 /\ Len(value) < rule.minLength
                            THEN FALSE
                            ELSE IF rule.pattern /\ ~emailPattern(value)
                            THEN FALSE
                            ELSE TRUE
             IN  [ok |-> isValid,
                  field |-> IF isValid THEN cleared
                            ELSE showFieldError(cleared, rule.message)]

\* FormManager.validateField of app.js: the result and the field it leaves.
validateField(f) ==
    LET value == trim(f.value)
    IN  IF f.name \notin DOMAIN validationRules THEN [ok |-> TRUE, field |-> f]
        ELSE LET rule == validationRules[f.name]
                 cleared == clearFieldError(f)
                 isValid == IF rule.minLength # 0 /\ Len(value) < rule.minLength
                            THEN FALSE
                            ELSE IF rule.pattern /\ ~emailPattern(value)
                            THEN FALSE
                            ELSE TRUE
             IN  [ok |-> isValid,
                  field |-> IF isValid THEN cleared
                            ELSE showFieldError(cleared, rule.message)]

\* FormManager.validateField of part_000: the switch over the field's name.
validateFieldB(f) ==
    LET value == trim(f.value)
        cleared == clearFieldError(f)
        errorMessage ==
            CASE f.name = "name" /\ Len(value) < 2 ->
                     "Name must be at least 2 characters long"
              [] f.name = "email" /\ ~emailPattern(value) ->
                     "Please enter a valid email address"
              [] f.name = "subject" /\ Len(value) < 5 ->
                     "Subject must be at least 5 characters long"
              [] f.name = "message" /\ Len(value) < 10 ->
                     "Message must be at least 10 characters long"
              [] OTHER -> ""
    IN  [ok |-> errorMessage = "",
         field |-> IF errorMessage = "" THEN cleared
                   ELSE showFieldError(cleared, errorMessage)]

\* The trimmed value v breaks the rule of the field called name.
BreaksRule(name, v) ==
    CASE name = "name" -> Len(v) < 2
      [] name = "subject" -> Len(v) < 5
      [] name = "message" -> Len(v) < 10
      [] name = "email" ->
           LET ats == {k \in DOMAIN v : v[k] = "@"}
           IN  ~(/\ Cardinality(ats) = 1
                 /\ \A k \in DOMAIN v : v[k] \notin Whitespace
                 /\ \E i \in ats : /\ i > 1
                                   /\ \E j \in (i + 2)..(Len(v) - 1) : v[j] = ".")
      [] OTHER -> FALSE

\* v without the blanks at its two ends.
Stripped(v) ==
    LET solid == {k \in DOMAIN v : v[k] \notin Whitespace}
    IN  IF solid = {} THEN <<>>
        ELSE SubSeq(v, CHOOSE k \in solid : \A m \in solid : k <= m,
                       CHOOSE k \in solid : \A m \in solid : k >= m)

\* A field as the page may hold it: unmarked, or marked by an earlier
\* validation with the message of its rule.
Fields(name, values) ==
    {[name |-> name, value |-> v, marked |-> FALSE, error |-> null] : v \in values}
    \cup IF name \in DOMAIN validationRules
         THEN {[name |-> name, value |-> v, marked |-> TRUE,
                error |-> validationRules[name].message] : v \in values}
         ELSE {}

\* No call of validateField has been made on the probed field.
NotCalled == [ok |-> FALSE, field |-> null]
NoProbe == [field |-> null, done |-> FALSE, app |-> NotCalled, full |-> NotCalled]

(***************************************************************************)
(* The contact form: submission, notification banners and their timers.    *)
(* Banners are numbered in the order showNotification creates them.  The   *)
(* pending timers of FormManager form a set: a timer is told from the      *)
(* others by its callback and by the banner, field or submission it was    *)
(* set for, and two timers that remove the same banner act as one.  The    *)
(* slide-in styling of a new banner is presentation only and is left out.  *)
(***************************************************************************)

\* Most submit events of one visit.
MaxSubmits == 2

\* The fields of the form and the values typed into them beside the empty
\* default: one that passes the field's rule.
FormFields == {"name", "email"}
TypedValue == [name |-> <<"a", "a">>, email |-> <<"a", "@", "a", ".", "a">>]

submitDelay == 2000
autoHideDelay == 5000
removeDelay == 300
debounceDelay == 300

\* A pending timer of FormManager.
Timer(fn, delay, banner, field, text) ==
    [fn |-> fn, delay |-> delay, banner |-> banner, field |-> field, text |-> text]

\* The form when the document has been parsed.
FormAtLoad ==
    [fields |-> [n \in FormFields |->
                    [name |-> n, value |-> <<>>, marked |-> FALSE, error |-> null]],
     button |-> [text |-> "Send Message", disabled |-> FALSE, loading |-> FALSE],
     banners |-> <<>>,     \* the banners attached to the body, in document order
     created |-> 0,        \* banners created so far
     submits |-> 0,        \* submit events so far
     timers |-> {},
     rejected |-> {},      \* history: the submit events that found a field in error
     succeeded |-> <<>>,   \* history: the submit events a success banner was shown for
     resets |-> 0]         \* history: form.reset() calls so far

\* validateField of the script the page runs.
validate(f) == IF variant = "app" THEN validateField(f) ELSE validateFieldB(f)

\* FormManager.showNotification for submit event k, without the timer that
\* hides the banner again.
showNotification_noAutoHide(fm, kind, k) ==
    LET remaining == IF fm.banners = <<>> THEN <<>> ELSE Tail(fm.banners)
        id == fm.created + 1
    IN  [fm EXCEPT !.banners = Append(remaining,
                                      [id |-> id, type |-> kind, hiding |-> FALSE,
                                       submit |-> k]),
                   !.created = id]

\* FormManager.showNotification appending the banner beside the one present.
showNotification_keepsOld(fm, kind, k) ==
    LET id == fm.created + 1
    IN  [fm EXCEPT !.banners = Append(@, [id |-> id, type |-> kind, hiding |-> FALSE,
                                          submit |-> k]),
                   !.created = id,
                   !.timers = @ \cup {Timer("autoHide", autoHideDelay, id, "", "")}]

\* FormManager.showNotification for submit event k: the first banner in the
\* document is removed, a new one appended and its auto-hide timer set.
showNotification(fm, kind, k) ==
    LET remaining == IF fm.banners = <<>> THEN <<>> ELSE Tail(fm.banners)
        id == fm.created + 1
    IN  [fm EXCEPT !.banners = Append(remaining,
                                      [id |-> id, type |-> kind, hiding |-> FALSE,
                                       submit |-> k]),
                   !.created = id,
                   !.timers = @ \cup {Timer("autoHide", autoHideDelay, id, "", "")}]

\* The banners of bs without banner id.
RECURSIVE Detach(_, _)
Detach(bs, id) ==
    IF bs = <<>> THEN <<>>
    ELSE IF Head(bs).id = id THEN Detach(Tail(bs), id)
    ELSE <<Head(bs)>> \o Detach(Tail(bs), id)

Attached(fm, id) == \E i \in DOMAIN fm.banners : fm.banners[i].id = id

\* Whatever banner is attached slides out.
Hide_anyBanner(bs, id) == [i \in DOMAIN bs |-> [bs[i] EXCEPT !.hiding = TRUE]]

\* The attached banner id slides out.
Hide(bs, id) == [i \in DOMAIN bs |-> IF bs[i].id = id THEN [bs[i] EXCEPT !.hiding = TRUE]
                                      ELSE bs[i]]

\* FormManager.hideNotification of app.js.
hideNotification(fm, id) ==
    [fm EXCEPT !.banners = Hide(@, id),
               !.timers = @ \cup {Timer("remove", removeDelay, id, "", "")}]

\* The auto-hide callback: hideNotification in app.js; in part_000 the banner
\* slides out and a removal is scheduled only if it is still attached.
autoHide(fm, id) ==
    IF variant = "app" THEN hideNotification(fm, id)
    ELSE IF Attached(fm, id) THEN hideNotification(fm, id)
    ELSE fm

\* The close button: hideNotification in app.js, immediate removal in part_000.
closeButton(fm, id) ==
    IF variant = "app" THEN hideNotification(fm, id)
    ELSE [fm EXCEPT !.banners = Detach(@, id)]

\* handleFormSubmission answering a form with an invalid field like a valid one.
handleFormSubmission_ignoresErrors(fm) ==
    LET k == fm.submits + 1
        results == [n \in FormFields |-> validate(fm.fields[n])]
        checked == [fm EXCEPT !.fields = [n \in FormFields |-> results[n].field],
                              !.submits = k]
        originalText == fm.button.text
    IN  [checked EXCEPT !.button = [text |-> "Sending...", disabled |-> TRUE,
                                    loading |-> variant = "app"],
                        !.timers = @ \cup {Timer("submitted", submitDelay, k, "",
                                                 originalText)}]

\* handleFormSubmission showing the success banner without waiting.
handleFormSubmission_answersAtOnce(fm) ==
    LET k == fm.submits + 1
        results == [n \in FormFields |-> validate(fm.fields[n])]
        isFormValid == \A n \in FormFields : results[n].ok
        checked == [fm EXCEPT !.fields = [n \in FormFields |-> results[n].field],
                              !.submits = k]
        originalText == fm.button.text
    IN  IF ~isFormValid
        THEN showNotification(checked, "error", k)
        ELSE showNotification(
                 [checked EXCEPT !.button = [text |-> "Sending...", disabled |-> TRUE,
                                             loading |-> variant = "app"],
                                 !.timers = @ \cup {Timer("submitted", submitDelay, k, "",
                                                          originalText)}],
                 "success", k)

\* FormManager.handleFormSubmission up to its setTimeout.
handleFormSubmission(fm) ==
    LET k == fm.submits + 1
        results == [n \in FormFields |-> validate(fm.fields[n])]
        isFormValid == \A n \in FormFields : results[n].ok
        checked == [fm EXCEPT !.fields = [n \in FormFields |-> results[n].field],
                              !.submits = k]
        originalText == fm.button.text
    IN  IF ~isFormValid
        THEN showNotification(checked, "error", k)
        ELSE [checked EXCEPT !.button = [text |-> "Sending...", disabled |-> TRUE,
                                         loading |-> variant = "app"],
                             !.timers = @ \cup {Timer("submitted", submitDelay, k, "",
                                                      originalText)}]

\* The callback of handleFormSubmission's setTimeout, for the timer t.
submitted(fm, t) ==
    LET shown == showNotification(fm, "success", t.banner)
    IN  [shown EXCEPT !.fields = [n \in FormFields |-> [@[n] EXCEPT !.value = <<>>]],
                      !.button = [text |-> t.text, disabled |-> FALSE, loading |-> FALSE],
                      !.succeeded = Append(@, t.banner),
                      !.resets = @ + 1]

\* The input listener of field n: part_000 clears the error at once, app.js
\* restarts the field's debounce timer.
inputEvent(fm, n) ==
    IF variant = "app"
    THEN [fm EXCEPT !.timers =
              {t \in @ : ~(t.fn = "clearError" /\ t.field = n)}
                  \cup {Timer("clearError", debounceDelay, 0, n, "")}]
    ELSE [fm EXCEPT !.fields[n] = clearFieldError(@)]

\* History kept in the text of a debounce timer: "outdated" once a validation
\* has marked the timer's field in error while the timer was pending.
Outdated(fm, validated) ==
    [fm EXCEPT !.timers =
        {IF t.fn = "clearError" /\ t.field \in validated /\ fm.fields[t.field].marked
         THEN [t EXCEPT !.text = "outdated"] ELSE t : t \in @}]

(***************************************************************************)
(* debounce of app.js on a clock.  Time passes in ticks; a timer's         *)
(* callback runs at the tick the timer is due, ahead of a call made at     *)
(* that tick, and time does not pass a timer that is due.                  *)
(***************************************************************************)

\* Longest delay handed to debounce, last tick of the clock and most calls of
\* the debounced function.
MaxDelay == 2
MaxTime == 4
MaxCalls == 3

\* The argument lists of the calls.
Args == {"x", "y"}

\* debounce(func, delay) has returned its function: no timer yet.  `calls` and
\* `runs` are history: the calls of the returned function and the runs of func.
Debounced(delay) ==
    [delay |-> delay, now |-> 0, timeoutId |-> 0, pending |-> {},
     calls |-> <<>>, runs |-> <<>>]

\* The page where debounce is not looked at.
NoDebounce == Debounced(0)

\* The returned function without its clearTimeout.
debounced_noClear(d, args) ==
    LET id == Len(d.calls) + 1
    IN  [d EXCEPT !.pending = @ \cup {[id |-> id, due |-> d.now + d.delay,
                                       args |-> args]},
                  !.timeoutId = id]

\* The function debounce returns: clearTimeout(timeoutId), then setTimeout.
debounced(d, args) ==
    LET id == Len(d.calls) + 1
    IN  [d EXCEPT !.pending = {t \in @ : t.id # d.timeoutId}
                                  \cup {[id |-> id, due |-> d.now + d.delay,
                                         args |-> args]},
                  !.timeoutId = id]

\* The timers of d that are due.
Due(d) == {t \in d.pending : t.due <= d.now}

\* History of the step fn that has just run.
Observe(fn) ==
    LET advance == fn = "erase" /\ charIndex = 0 /\ ~threw'
        wrapped == advance /\ textIndex' = 0
        shown == Append(rendered, textContent')
    IN  /\ lastStep' = fn
        /\ fullyTyped' = IF advance THEN FALSE
                         ELSE fullyTyped \/ charIndex' = Len(texts[textIndex' + 1])
        /\ rendered' = IF wrapped THEN <<>> ELSE shown
        /\ firstPeriod' = IF wrapped /\ ~periodDone THEN shown ELSE firstPeriod
        /\ periodDone' = (periodDone \/ wrapped)
        /\ erasedOnce' = (erasedOnce \/ (fn = "erase" /\ charIndex > 0 /\ ~threw'))

\* The animation when the document has been parsed and no script has run.
AnimatorInit(playlists, sinks) ==
    /\ texts \in playlists
    /\ sinkExists \in BOOLEAN
    /\ textContent \in (IF sinkExists THEN sinks ELSE {<<>>})
    /\ textIndex = 0
    /\ charIndex = 0
    /\ timers = <<>>
    /\ started = FALSE
    /\ threw = FALSE
    /\ lastStep = "none"
    /\ fullyTyped = FALSE
    /\ rendered = <<>>
    /\ firstPeriod = <<>>
    /\ periodDone = FALSE
    /\ erasedOnce = FALSE
    /\ variantB = LoadedB(textContent)

\* A page with the animation alone: none of the other widgets is in the document.
Init ==
    /\ AnimatorInit(Playlists, InitialSinks)
    /\ variant = "app"
    /\ dom = BareDom
    /\ theme = ThemeAtLoad(null, FALSE)
    /\ nav = NavAtLoad({})
    /\ probe = NoProbe
    /\ deb = NoDebounce
    /\ form = FormAtLoad

\* The start of the animation without its guard.
Start_noGuard ==
    /\ ~started
    /\ started' = TRUE
    /\ type(timers) /\ Observe("type")
    /\ UNCHANGED <<texts, sinkExists, others>>

\* The start guard: if (typedTextSpan) { type(); }
StartGuard ==
    IF sinkExists
    THEN type(timers) /\ Observe("type")
    ELSE UNCHANGED <<animator, history>>

\* The animation starts.
Start ==
    /\ ~started
    /\ started' = TRUE
    /\ StartGuard
    /\ UNCHANGED <<texts, sinkExists, others>>

\* A pending type timer fires.
TypeTimer ==
    \E i \in DOMAIN timers :
        /\ timers[i].fn = "type"
        /\ type(RemoveAt(timers, i))
        /\ Observe("type")
        /\ UNCHANGED <<texts, sinkExists, started, others>>

\* A pending erase timer fires.
EraseTimer ==
    \E i \in DOMAIN timers :
        /\ timers[i].fn = "erase"
        /\ erase(RemoveAt(timers, i))
        /\ Observe("erase")
        /\ UNCHANGED <<texts, sinkExists, started, others>>

Next == Start \/ TypeTimer \/ EraseTimer

Spec == Init /\ [][Next]_vars

\* The event loop runs the load handler and fires every timer that is due.
FairSpec == Spec /\ WF_vars(Start) /\ WF_vars(TypeTimer) /\ WF_vars(EraseTimer)

\* Both pages run their start guard.
PairStart ==
    /\ ~started
    /\ started' = TRUE
    /\ IF sinkExists
       THEN type(timers) /\ Observe("type")
       ELSE UNCHANGED <<animator, history>>
    /\ variantB' = startB(variantB)
    /\ UNCHANGED <<texts, sinkExists, variant, dom, theme, nav, probe, form, deb>>

\* On both pages the type or erase timer that is due fires.
PairType ==
    /\ timers # <<>>
    /\ Head(timers).fn = "type"
    /\ type(Tail(timers))
    /\ Observe("type")
    /\ variantB' = timerB(variantB)
    /\ UNCHANGED <<texts, sinkExists, started, variant, dom, theme, nav, probe, form, deb>>

PairErase ==
    /\ timers # <<>>
    /\ Head(timers).fn = "erase"
    /\ erase(Tail(timers))
    /\ Observe("erase")
    /\ variantB' = timerB(variantB)
    /\ UNCHANGED <<texts, sinkExists, started, variant, dom, theme, nav, probe, form, deb>>

PairNext == PairStart \/ PairType \/ PairErase

\* src/app.js and src/unnamed/part_000 run side by side, step for step.
PairSpec == Init /\ [][PairNext]_vars

\* The playlist of the pages that have other widgets beside the animation.
PagePlaylists == {<<<<"a">>>>}

\* A page with the theme toggle.
ThemePage ==
    /\ dom \in ThemeDoms
    /\ theme \in {ThemeAtLoad(st, pd) : st \in {null} \cup StoredThemes, pd \in BOOLEAN}
    /\ nav = NavAtLoad({})

\* A page with navigation; at most one link is marked active in the markup.
NavPage ==
    /\ dom \in NavDoms
    /\ theme = ThemeAtLoad(null, FALSE)
    /\ nav \in {NavAtLoad(a) : a \in {{}} \cup {{l} : l \in dom.links}}

\* A page with the contact form.
FormPage ==
    /\ dom = [BareDom EXCEPT !.contactForm = TRUE]
    /\ theme = ThemeAtLoad(null, FALSE)
    /\ nav = NavAtLoad({})
    /\ form = FormAtLoad

\* Pages with the animation and one more widget, run by either script.
PageInit ==
    /\ AnimatorInit(PagePlaylists, {<<>>})
    /\ variant \in {"app", "full"}
    /\ \/ ThemePage /\ form = FormAtLoad
       \/ NavPage /\ form = FormAtLoad
       \/ FormPage
    /\ probe = NoProbe
    /\ deb = NoDebounce

\* The DOMContentLoaded handler: the managers are constructed, then the start guard.
Load ==
    /\ ~started
    /\ started' = TRUE
    /\ theme' = ThemeManager(theme)
    /\ StartGuard
    /\ UNCHANGED <<texts, sinkExists, variantB, variant, dom, nav, probe, form, deb>>

\* A click on the theme toggle that updates the typing sink in place of the icon.
ToggleTheme_intoSink ==
    /\ started
    /\ dom.themeToggle
    /\ theme' = toggle(theme)
    /\ textContent' = <<toggle(theme).icon>>
    /\ UNCHANGED <<texts, sinkExists, started, textIndex, charIndex, timers, threw,
                   history, variantB, variant, dom, nav, probe, form, deb>>

\* A click on the theme toggle.
ToggleTheme ==
    /\ started
    /\ dom.themeToggle
    /\ theme' = toggle(theme)
    /\ UNCHANGED <<texts, sinkExists, started, animator, history, variantB, variant,
                   dom, nav, probe, form, deb>>

\* A handler of Navigation leaves nav as n.
NavHandler(n) ==
    /\ started
    /\ nav' = n
    /\ UNCHANGED <<texts, sinkExists, started, animator, history, variantB, variant,
                   dom, theme, probe, form, deb>>

\* A click on the menu toggle: its listener, then the document's.
ClickToggle ==
    /\ dom.navToggle
    /\ NavHandler(documentClick(toggleMobileMenu(Event(nav, "toggle")), dom.toggleInNav))

\* A click on a navigation link: its listener, then the document's.
ClickLink ==
    /\ dom.links # {}
    /\ NavHandler(documentClick(linkClick(Event(nav, "link")), dom.linksInNav))

\* A click anywhere else, inside #nav or outside it.
ClickElsewhere ==
    \E inside \in BOOLEAN :
        /\ inside => dom.nav
        /\ NavHandler(documentClick(Event(nav, IF inside THEN "inside" ELSE "outside"),
                                    inside))

\* Escape is pressed on the page of part_000; without #nav the listener throws.
PressEscape ==
    /\ variant = "full"
    /\ dom.nav
    /\ NavHandler(escapeKey(Event(nav, "escape")))

\* The intersection observer of the scroll-spy reports entries.
ScrollSpy ==
    \E entries \in EntriesUpTo(dom.sections, MaxEntries) :
        /\ entries # <<>>
        /\ NavHandler([spy(Event(nav, "spy"), entries, 1) EXCEPT
                          !.hit = LastIntersecting(entries)])

\* A handler or timer of FormManager leaves the form as fm.
FormHandler(fm) ==
    /\ started
    /\ dom.contactForm
    /\ form' = fm
    /\ UNCHANGED <<texts, sinkExists, started, animator, history, variantB, variant,
                   dom, theme, nav, probe, deb>>

\* The visitor changes the value of a field.
InputValue ==
    \E n \in FormFields : \E v \in {<<>>, TypedValue[n]} :
        /\ v # form.fields[n].value
        /\ FormHandler(inputEvent([form EXCEPT !.fields[n].value = v], n))

\* A field loses the focus.
Blur ==
    \E n \in FormFields :
        FormHandler(Outdated([form EXCEPT !.fields[n] = validate(@).field], {n}))

\* The debounce timer of a field of app.js fires.
ClearErrorTimer ==
    \E t \in form.timers :
        /\ t.fn = "clearError"
        /\ FormHandler([form EXCEPT !.timers = @ \ {t},
                                    !.fields[t.field] = clearFieldError(@)])

\* A submit event; `rejected` records it when a field breaks its rule.
SubmitForm ==
    /\ form.submits < MaxSubmits
    /\ LET handled == handleFormSubmission(form)
           broken == \E n \in FormFields :
                         BreaksRule(n, Stripped(form.fields[n].value))
       IN  FormHandler(Outdated([handled EXCEPT !.rejected =
                                    IF broken THEN @ \cup {form.submits + 1} ELSE @],
                                FormFields))

\* The 2000 ms timer of a submission fires.
SubmittedTimer ==
    \E t \in form.timers :
        /\ t.fn = "submitted"
        /\ FormHandler(submitted([form EXCEPT !.timers = @ \ {t}], t))

\* The 5000 ms timer of a banner fires.
AutoHideTimer ==
    \E t \in form.timers :
        /\ t.fn = "autoHide"
        /\ FormHandler(autoHide([form EXCEPT !.timers = @ \ {t}], t.banner))

\* The 300 ms timer that removes a banner fires.
RemoveTimer ==
    \E t \in form.timers :
        /\ t.fn = "remove"
        /\ FormHandler([form EXCEPT !.timers = @ \ {t},
                                    !.banners = Detach(@, t.banner)])

\* A click on the close button of an attached banner.
CloseBanner ==
    \E i \in DOMAIN form.banners :
        FormHandler(closeButton(form, form.banners[i].id))

\* Most submit events on a page whose animation runs beside the form.
MaxPageSubmits == 1

\* A submit event on a page with the animation.
PageSubmit ==
    /\ form.submits < MaxPageSubmits
    /\ SubmitForm

PageNext ==
    \/ Load \/ TypeTimer \/ EraseTimer
    \/ ToggleTheme
    \/ ClickToggle \/ ClickLink \/ ClickElsewhere \/ PressEscape \/ ScrollSpy
    \/ InputValue \/ Blur \/ ClearErrorTimer \/ PageSubmit
    \/ SubmittedTimer \/ AutoHideTimer \/ RemoveTimer \/ CloseBanner

PageSpec == PageInit /\ [][PageNext]_vars

\* A page with the contact form and without the typing sink, run by either
\* script: the animation never starts on it.
FormInit ==
    /\ AnimatorInit(PagePlaylists, {<<>>})
    /\ ~sinkExists
    /\ variant \in {"app", "full"}
    /\ FormPage
    /\ probe = NoProbe
    /\ deb = NoDebounce

FormNext ==
    \/ Load
    \/ InputValue \/ Blur \/ ClearErrorTimer \/ SubmitForm
    \/ SubmittedTimer \/ AutoHideTimer \/ RemoveTimer \/ CloseBanner

FormSpec == FormInit /\ [][FormNext]_vars

\* The script runs when the page has loaded and the browser fires every timer
\* that stays pending; what the visitor does is left open.
FormFairSpec ==
    /\ FormSpec
    /\ WF_vars(Load)
    /\ WF_vars(ClearErrorTimer)
    /\ WF_vars(SubmittedTimer)
    /\ WF_vars(AutoHideTimer)
    /\ WF_vars(RemoveTimer)

\* A field with some value, before validateField is called on it.
FieldInit ==
    /\ AnimatorInit({PortfolioTexts}, {<<>>})
    /\ variant = "app"
    /\ dom = BareDom
    /\ theme = ThemeAtLoad(null, FALSE)
    /\ nav = NavAtLoad({})
    /\ form = FormAtLoad
    /\ deb = NoDebounce
    /\ probe \in {[NoProbe EXCEPT !.field = f] : f \in UNION {Fields(n, FieldValues(n)) : n \in FieldNames}}

\* validateField of app.js and of part_000 are called on the field.
Validate ==
    /\ ~probe.done
    /\ probe' = [probe EXCEPT !.done = TRUE,
                              !.app = validateField(probe.field),
                              !.full = validateFieldB(probe.field)]
    /\ UNCHANGED <<texts, sinkExists, started, animator, history, variantB, variant,
                   dom, theme, nav, form, deb>>

FieldNext == Validate

FieldSpec == FieldInit /\ [][FieldNext]_vars

\* debounce has been called with some delay.
DebounceInit ==
    /\ AnimatorInit({PortfolioTexts}, {<<>>})
    /\ variant = "app"
    /\ dom = BareDom
    /\ theme = ThemeAtLoad(null, FALSE)
    /\ nav = NavAtLoad({})
    /\ form = FormAtLoad
    /\ probe = NoProbe
    /\ deb \in {Debounced(delay) : delay \in 1..MaxDelay}

DebounceStep(d) ==
    /\ deb' = d
    /\ UNCHANGED <<texts, sinkExists, started, animator, history, variantB, variant,
                   dom, theme, nav, probe, form>>

\* The debounced function is called.
DebouncedCall ==
    \E args \in Args :
        /\ Len(deb.calls) < MaxCalls
        /\ Due(deb) = {}
        /\ DebounceStep([debounced(deb, args) EXCEPT
                            !.calls = Append(@, [at |-> deb.now, args |-> args])])

\* A timer of the debounced function fires: func.apply(null, args).
DebounceTimer ==
    \E t \in Due(deb) :
        DebounceStep([deb EXCEPT !.pending = @ \ {t},
                                 !.runs = Append(@, [at |-> deb.now, args |-> t.args])])

\* A tick passes.
Tick ==
    /\ deb.now < MaxTime
    /\ Due(deb) = {}
    /\ DebounceStep([deb EXCEPT !.now = @ + 1])

DebounceNext == DebouncedCall \/ DebounceTimer \/ Tick

DebounceSpec == DebounceInit /\ [][DebounceNext]_vars

\* What the steps are expected to leave in the sink: texts[textIndex][0:charIndex].
Expected == substring(texts[textIndex + 1], 0, charIndex)

\* The one timer pending between two steps of the animation.
PendingIs(fn, delay) == timers = <<[fn |-> fn, delay |-> delay]>>

\* An animator step of kind fn is taken (every step changes the animator's state).
Stepped(fn) == lastStep' = fn /\ animator' # animator

\* C1: after start() with an existing sink, once a type or erase step has
\* completed, the sink's text is the first charIndex characters of
\* texts[textIndex].
C1_RenderedIsPrefix ==
    (started /\ sinkExists /\ lastStep # "none") => textContent = Expected

\* C2: in every reachable state 0 <= textIndex < len(texts) and
\* 0 <= charIndex <= len(texts[textIndex]); textIndex never equals len(texts).
C2_IndexBounds ==
    /\ textIndex >= 0
    /\ textIndex < Len(texts)
    /\ charIndex >= 0
    /\ charIndex <= Len(texts[textIndex + 1])

\* C2 witness: textIndex is back at 0 after the last entry of a longer playlist.
C2_Wrapped ==
    /\ Len(texts) > 1
    /\ periodDone
    /\ lastStep = "erase"
    /\ textIndex = 0
    /\ PendingIs("type", typingDelay + nextTextPause)

\* C3: a type step never changes textIndex and never takes charIndex past the
\* length of the current string; below that length it appends one character,
\* adds exactly 1 to charIndex and schedules another type step; at that length
\* it changes neither the text nor charIndex and typing ends.
C3_TypingStep ==
    [][Stepped("type") =>
        /\ textIndex' = textIndex
        /\ charIndex' <= Len(texts[textIndex + 1])
        /\ IF charIndex < Len(texts[textIndex + 1])
           THEN /\ charIndex' = charIndex + 1
                /\ Len(textContent') = Len(textContent) + 1
                /\ PendingIs("type", typingDelay)'
           ELSE /\ charIndex' = charIndex
                /\ textContent' = textContent
                /\ PendingIs("erase", newTextDelay)'
        /\ (textContent' # textContent => charIndex' = charIndex + 1)]_vars

\* C3 witness: a type step has just rendered the last character of a string.
C3_TypedLast ==
    /\ lastStep = "type"
    /\ charIndex = Len(texts[textIndex + 1])
    /\ charIndex > 1
    /\ PendingIs("type", typingDelay)

\* C4: an erase step never takes charIndex below 0; above 0 it removes one
\* character, subtracts exactly 1 from charIndex, leaves textIndex unchanged
\* and schedules another erase step; at 0 erasing ends.
C4_ErasingStep ==
    [][Stepped("erase") =>
        /\ charIndex' >= 0
        /\ IF charIndex > 0
           THEN /\ charIndex' = charIndex - 1
                /\ textIndex' = textIndex
                /\ Len(textContent') = charIndex - 1
                /\ PendingIs("erase", erasingDelay)'
           ELSE /\ charIndex' = 0
                /\ textContent' = textContent
                /\ PendingIs("type", typingDelay + nextTextPause)'
        /\ (textContent' # textContent => charIndex' = charIndex - 1)]_vars

\* C4 witness: an erase step has just removed the last character left.
C4_ErasedLast ==
    /\ lastStep = "erase"
    /\ charIndex = 0
    /\ fullyTyped
    /\ PendingIs("erase", erasingDelay)

\* C5: textIndex changes only in the erase step that finds charIndex = 0; that
\* step sets it to (textIndex + 1) mod len(texts), comes after the string was
\* fully typed and erased, and leaves an empty sink for the next string.
C5_AdvanceOncePerCycle ==
    [][/\ (textIndex' # textIndex => lastStep' = "erase" /\ charIndex = 0)
       /\ (Stepped("erase") /\ charIndex = 0 =>
              /\ textIndex' = (textIndex + 1) % Len(texts)
              /\ fullyTyped
              /\ charIndex' = 0
              /\ textContent' = <<>>
              /\ PendingIs("type", typingDelay + nextTextPause)')]_vars

\* C5 witness: the second string is about to be typed into the empty sink.
C5_SecondStringNext ==
    /\ lastStep = "erase"
    /\ textIndex = 1
    /\ charIndex = 0
    /\ textContent = <<>>
    /\ PendingIs("type", typingDelay + nextTextPause)

IsPrefixOf(s, t) == Len(s) <= Len(t) /\ s = SubSeq(t, 1, Len(s))

\* C6: once the playlist has been played through, the animator is at
\* textIndex = 0, charIndex = 0 with a type step pending and an empty sink each
\* time a period ends, and the texts rendered from there are those rendered
\* from the start.
C6_Periodic ==
    periodDone =>
        /\ IsPrefixOf(rendered, firstPeriod)
        /\ (rendered = <<>> =>
               /\ textIndex = 0
               /\ charIndex = 0
               /\ textContent = <<>>
               /\ PendingIs("type", typingDelay + nextTextPause))

\* The positions a playlist can have.
Positions == UNION {DOMAIN p : p \in Playlists}

\* C7: under fair firing of the timers a started animation always has a step
\* pending, renders every playlist entry completely infinitely often and shows
\* the empty text infinitely often.
C7_RunsForever ==
    /\ [](started /\ sinkExists => ENABLED (TypeTimer \/ EraseTimer))
    /\ \A k \in Positions :
          []<>(sinkExists /\ k <= Len(texts) =>
                  /\ textIndex = k - 1
                  /\ charIndex = Len(texts[k])
                  /\ textContent = texts[k])
    /\ []<>(sinkExists => started /\ textContent = <<>>)

\* C7 witness: the last entry is fully rendered again in a later period.
C7_LastEntryAgain ==
    /\ periodDone
    /\ textIndex = Len(texts) - 1
    /\ charIndex = Len(texts[textIndex + 1])
    /\ textContent = texts[textIndex + 1]
    /\ lastStep = "type"

\* C8: after start() with an existing sink exactly one animator callback is
\* pending between steps; the step that runs is the one the previous step
\* scheduled, and it schedules exactly one successor.
C8_OnePending ==
    /\ [](started /\ sinkExists => Len(timers) = 1)
    /\ [][started /\ animator' # animator =>
             /\ Len(timers) = 1
             /\ lastStep' = timers[1].fn
             /\ Len(timers') = 1]_vars

\* C8 witness: one callback is pending in the middle of a later cycle.
C8_MidCycle ==
    /\ started
    /\ sinkExists
    /\ periodDone
    /\ charIndex > 0
    /\ Len(timers) = 1

\* C9: without a sink no step ever runs, no timer is ever scheduled, textIndex
\* and charIndex stay 0 and no error is raised.
C9_NoSinkNoOp ==
    ~sinkExists =>
        /\ lastStep = "none"
        /\ timers = <<>>
        /\ textIndex = 0
        /\ charIndex = 0
        /\ ~threw

\* C9 witness: the start guard has been passed without a sink.
C9_StartedWithoutSink == started /\ ~sinkExists

\* C10: with a single entry textIndex stays 0; a fully typed entry is followed
\* by the pause and by erase steps that remove one character each; the entry
\* is typed again only from the empty sink that the erase phase left.
C10_SingleEntry ==
    [][Len(texts) = 1 =>
        /\ textIndex' = 0
        /\ (Stepped("type") /\ charIndex = Len(texts[1]) =>
               /\ textContent' = textContent
               /\ charIndex' = charIndex
               /\ PendingIs("erase", newTextDelay)')
        /\ (Stepped("erase") /\ charIndex > 0 =>
               /\ textContent' = substring(texts[1], 0, charIndex - 1)
               /\ charIndex' = charIndex - 1)
        /\ (Stepped("type") /\ charIndex = 0 /\ lastStep # "none" =>
               /\ lastStep = "erase"
               /\ periodDone
               /\ textContent = <<>>
               /\ textContent' = substring(texts[1], 0, 1))]_vars

\* C10 witness: the only entry is being typed for the second time.
C10_Retyping ==
    /\ Len(texts) = 1
    /\ periodDone
    /\ lastStep = "type"
    /\ charIndex = 1
    /\ textContent = substring(texts[1], 0, 1)

\* C11: a type step that appended a character schedules type after 150 ms, one
\* that finds the string complete schedules erase after 2000 ms; an erase step
\* that removed a character schedules erase after 100 ms, one that finds
\* charIndex = 0 schedules type after 1250 ms; nothing else is ever scheduled.
C11_Delays ==
    /\ [](\A i \in DOMAIN timers :
            timers[i] \in {[fn |-> "type", delay |-> 150],
                           [fn |-> "erase", delay |-> 2000],
                           [fn |-> "erase", delay |-> 100],
                           [fn |-> "type", delay |-> 1250]})
    /\ [][/\ (Stepped("type") =>
                 IF charIndex' > charIndex
                 THEN PendingIs("type", 150)'
                 ELSE charIndex = Len(texts[textIndex + 1]) /\ PendingIs("erase", 2000)')
          /\ (Stepped("erase") =>
                 IF charIndex' < charIndex
                 THEN PendingIs("erase", 100)'
                 ELSE charIndex = 0 /\ PendingIs("type", 1250)')]_vars

\* C11 witness: the 1250 ms pause before the first string is typed again.
C11_LongPause ==
    /\ periodDone
    /\ rendered = <<>>
    /\ timers = <<[fn |-> "type", delay |-> 1250]>>

\* C19: whatever the sink contained before start(), once an erase step has
\* removed a character the sink's text is texts[textIndex][0:charIndex], and
\* from the second cycle on every string starts typing into the empty sink.
C19_PrefixAfterFirstErase ==
    /\ [](erasedOnce => textContent = Expected)
    /\ [][Stepped("type") /\ charIndex = 0 /\ lastStep # "none" =>
             textContent = <<>>]_vars

\* C19 witness: the sink held other text at start and a later string is typed.
C19_PrefilledThenTyped ==
    /\ firstPeriod # <<>>
    /\ firstPeriod[1] # substring(texts[1], 0, 1)
    /\ lastStep = "type"
    /\ charIndex > 0
    /\ textContent = Expected

\* C12: run side by side from the same playlist and the same initial sink, the
\* animations of src/app.js and of src/unnamed/part_000 are in the same
\* (textIndex, charIndex, rendered text, scheduled step, delay) after every step.
C12_SameBehaviour ==
    /\ variantB.textIndex = textIndex
    /\ variantB.charIndex = charIndex
    /\ variantB.textContent = textContent
    /\ variantB.timers = timers
    /\ variantB.threw = threw
    /\ variantB.started = started

\* C12 witness: both animations pause before typing their first string again.
C12_BothInLaterPeriod ==
    /\ periodDone
    /\ variantB.textIndex = 0
    /\ variantB.charIndex = 0
    /\ variantB.timers = <<[fn |-> "type", delay |-> 1250]>>
    /\ Len(texts) > 1

\* C18: every theme toggle leaves the new theme in local storage under 'theme'
\* and in the data-theme attribute; at startup a stored value is taken rather
\* than the system preference; the second of two toggles from 'light' or
\* 'dark' returns to the theme before the first.
C18_ThemePersisted ==
    /\ [](started => theme.dataTheme = theme.currentTheme)
    /\ [](theme.previous # null =>
             theme.stored = theme.currentTheme /\ theme.currentTheme \in {"light", "dark"})
    /\ [][~started /\ started' =>
             theme'.currentTheme =
                 IF theme.stored \in StoredThemes THEN theme.stored
                 ELSE IF theme.prefersDark THEN "dark" ELSE "light"]_vars
    /\ [][started /\ theme' # theme =>
             /\ theme'.currentTheme # theme.currentTheme
             /\ theme'.stored = theme'.currentTheme
             /\ theme'.dataTheme = theme'.currentTheme
             /\ (theme.previous \in {"light", "dark"} =>
                    theme'.currentTheme = theme.previous)]_vars

\* C18 witness: a stored 'dark' overrode a light system preference and two
\* toggles have led back to it.
C18_ToggledBack ==
    /\ ~theme.prefersDark
    /\ theme.previous = "light"
    /\ theme.currentTheme = "dark"
    /\ theme.stored = "dark"
    /\ theme.dataTheme = "dark"

\* C20: from a closed menu without 'active' classes, after any clicks and key
\* presses isMenuOpen is true exactly when the toggle button, the menu and the
\* menu container (the document having all three) carry 'active', and on the
\* page of app.js exactly when the body carries 'menu-open'.
C20_MenuInSync ==
    /\ (dom.navToggle /\ dom.navMenu /\ dom.navMenuContainer =>
           /\ nav.isMenuOpen = (nav.toggleActive /\ nav.menuActive /\ nav.containerActive)
           /\ nav.isMenuOpen = (nav.toggleActive \/ nav.menuActive \/ nav.containerActive))
    /\ (variant = "app" => nav.isMenuOpen = nav.bodyMenuOpen)

\* C20 witness: the menu of app.js is open with every class set.
C20_MenuOpen ==
    /\ variant = "app"
    /\ nav.isMenuOpen
    /\ nav.toggleActive /\ nav.menuActive /\ nav.containerActive
    /\ nav.bodyMenuOpen

\* C17: validateField returns false and leaves the field's error displayed
\* exactly when the trimmed value breaks the field's rule; otherwise, also
\* for a name without rule, it returns true and leaves no error displayed; the
\* scripts of app.js and part_000 agree.
C17_ValidateField ==
    probe.done =>
        LET breaks == BreaksRule(probe.field.name, Stripped(probe.field.value))
        IN  /\ probe.app.ok = ~breaks
            /\ probe.app.field.marked = breaks
            /\ (probe.app.field.error # null) = breaks
            /\ probe.app.field.value = probe.field.value
            /\ probe.full = probe.app

\* C17 witness: a well-formed address between blanks passed the email rule and
\* the error shown before is gone.
C17_EmailAccepted ==
    /\ probe.done
    /\ probe.field.name = "email"
    /\ probe.field.marked
    /\ Len(probe.field.value) > Len(Stripped(probe.field.value))
    /\ probe.app.ok
    /\ probe.app.field.error = null

\* The submit event of this step finds a field that breaks its rule.
InvalidSubmit ==
    /\ form'.submits = form.submits + 1
    /\ \E n \in FormFields : BreaksRule(n, Stripped(form.fields[n].value))

\* The submit event of this step finds every field within its rule.
ValidSubmit ==
    /\ form'.submits = form.submits + 1
    /\ \A n \in FormFields : ~BreaksRule(n, Stripped(form.fields[n].value))

\* The pending timers of fm that run callback fn.
TimersOf(fm, fn) == {t \in fm.timers : t.fn = fn}

\* The banners a visit can create.
BannerIds == 1..MaxSubmits

\* C14: a submit event that finds a field in error shows an error banner,
\* schedules no submission timer, resets nothing and leaves the submit button
\* as it was, and no success banner is ever shown for that submit event; a
\* submission timer is scheduled only by a submit event that finds every
\* field valid.
C14_InvalidSubmit ==
    /\ [][InvalidSubmit =>
            /\ form'.created = form.created + 1
            /\ form'.banners # <<>>
            /\ LET b == form'.banners[Len(form'.banners)]
               IN  b.id = form'.created /\ b.type = "error"
            /\ TimersOf(form', "submitted") = TimersOf(form, "submitted")
            /\ \A n \in FormFields : form'.fields[n].value = form.fields[n].value
            /\ form'.resets = form.resets
            /\ form'.button = form.button]_vars
    /\ [][TimersOf(form', "submitted") \ TimersOf(form, "submitted") # {}
            => ValidSubmit]_vars
    /\ [](\A i \in DOMAIN form.succeeded : form.succeeded[i] \notin form.rejected)
    /\ [](\A i \in DOMAIN form.banners :
            form.banners[i].type = "success" =>
                form.banners[i].submit \notin form.rejected)

\* C14 witness: a submit event was turned down; its error banner is on the
\* page, nothing is pending for it and the button is enabled under its label.
C14_Rejected ==
    /\ form.rejected = {1}
    /\ form.submits = 1
    /\ Len(form.banners) = 1
    /\ form.banners[1].type = "error"
    /\ TimersOf(form, "submitted") = {}
    /\ form.button = FormAtLoad.button

\* C15: a submit event that finds every field valid schedules the 2000 ms
\* timer and shows nothing yet; a success banner appears only in the step in
\* which that timer fires, which shows one banner and resets the form once;
\* every scheduled submission is answered by its success banner, once.
C15_SuccessAfterDelay ==
    /\ [][ValidSubmit =>
            /\ TimersOf(form', "submitted") \ TimersOf(form, "submitted")
                 = {Timer("submitted", 2000, form'.submits, "", form.button.text)}
            /\ form'.created = form.created
            /\ form'.succeeded = form.succeeded
            /\ form'.resets = form.resets]_vars
    /\ [][form'.succeeded # form.succeeded \/ form'.resets # form.resets
            \/ (\E i \in DOMAIN form'.banners :
                   /\ form'.banners[i].type = "success"
                   /\ form'.banners[i].id > form.created)
            => \E t \in TimersOf(form, "submitted") :
                   /\ t.delay = 2000
                   /\ t \notin form'.timers
                   /\ TimersOf(form', "submitted") = TimersOf(form, "submitted") \ {t}
                   /\ form'.created = form.created + 1
                   /\ form'.banners # <<>>
                   /\ form'.banners[Len(form'.banners)] =
                        [id |-> form'.created, type |-> "success",
                         hiding |-> FALSE, submit |-> t.banner]
                   /\ \A i \in 1..(Len(form'.banners) - 1) :
                          form'.banners[i].id <= form.created
                   /\ form'.succeeded = Append(form.succeeded, t.banner)
                   /\ form'.resets = form.resets + 1
                   /\ \A n \in FormFields : form'.fields[n].value = <<>>]_vars
    /\ [](\A i, j \in DOMAIN form.succeeded :
            form.succeeded[i] = form.succeeded[j] => i = j)
    /\ []<>(\A k \in 1..form.submits :
               \/ k \in form.rejected
               \/ \E i \in DOMAIN form.succeeded : form.succeeded[i] = k)

\* C15 witness: the timer of a valid submission has fired; its success banner
\* is on the page, the fields are empty again and the button is restored.
C15_Answered ==
    /\ form.succeeded = <<1>>
    /\ form.resets = 1
    /\ Len(form.banners) = 1
    /\ form.banners[1].type = "success"
    /\ \A n \in FormFields : form.fields[n].value = <<>>
    /\ form.button = FormAtLoad.button

\* C16: a banner on the page has its 5000 ms auto-hide timer pending, or is
\* sliding out with its removal pending; every banner on the page is
\* eventually off the page.
C16_AutoDismiss ==
    /\ [](\A i \in DOMAIN form.banners :
            LET b == form.banners[i]
            IN  \/ Timer("autoHide", 5000, b.id, "", "") \in form.timers
                \/ /\ b.hiding
                   /\ \E t \in TimersOf(form, "remove") : t.banner = b.id)
    /\ [][\A id \in BannerIds :
            (/\ Attached(form, id)
             /\ \E t \in TimersOf(form, "autoHide") \ form'.timers : t.banner = id)
            => \/ ~Attached(form', id)
               \/ \E i \in DOMAIN form'.banners :
                     /\ form'.banners[i].id = id
                     /\ form'.banners[i].hiding]_vars
    /\ \A id \in BannerIds : <>[]~Attached(form, id)

\* C16 witness: in part_000 the auto-hide timer of a banner nobody closed has
\* fired; the banner slides out and its removal is pending.
C16_SlidingOut ==
    /\ variant = "full"
    /\ Len(form.banners) = 1
    /\ form.banners[1].hiding
    /\ TimersOf(form, "autoHide") = {}
    /\ TimersOf(form, "remove") # {}

\* C13: textIndex, charIndex and the sink's text change only in a step of the
\* animator, at start or when its timer fires; a step in which a handler of
\* the theme, the navigation or the form acts leaves all three unchanged.
C13_OnlyAnimator ==
    /\ [][<<textIndex, charIndex, textContent>>' # <<textIndex, charIndex, textContent>>
            => \/ ~started /\ started'
               \/ /\ timers # <<>>
                  /\ lastStep' = Head(timers).fn
                  /\ UNCHANGED <<theme, nav, form, probe>>]_vars
    /\ [][started /\ <<theme, nav, form, probe>>' # <<theme, nav, form, probe>>
            => UNCHANGED <<textIndex, charIndex, textContent, timers>>]_vars

\* C13 witness: a banner was shown and the animation, past its first entry,
\* has text in the sink.
C13_HandlerMidWord ==
    /\ form.created > 0
    /\ textContent # <<>>
    /\ erasedOnce

\* C21: with the toggle button and the links inside #nav, one click calls
\* toggleMobileMenu at most once: a click on the toggle flips the menu, a
\* click on a link or outside #nav closes an open menu and leaves a closed one
\* closed, and a click elsewhere inside #nav changes nothing.
C21_OneTogglePerClick ==
    [][(/\ dom.nav /\ dom.toggleInNav /\ dom.linksInNav
        /\ nav' # nav
        /\ nav'.event \in {"toggle", "link", "inside", "outside"})
       => /\ nav'.calls <= 1
          /\ nav'.event = "toggle" =>
                nav'.calls = 1 /\ nav'.isMenuOpen = ~nav.isMenuOpen
          /\ nav'.event \in {"link", "outside"} =>
                /\ ~nav'.isMenuOpen
                /\ nav'.calls = (IF nav.isMenuOpen THEN 1 ELSE 0)
          /\ nav'.event = "inside" =>
                nav'.calls = 0 /\ nav'.isMenuOpen = nav.isMenuOpen]_vars

\* C21 witness: a click on a link inside #nav has closed the open menu with
\* one call of toggleMobileMenu.
C21_LinkClosedMenu ==
    /\ dom.nav /\ dom.toggleInNav /\ dom.linksInNav
    /\ nav.event = "link"
    /\ nav.calls = 1
    /\ ~nav.isMenuOpen

\* C26: at most one link carries 'active'; after a scroll-spy callback with an
\* intersecting entry the active link is the one that targets the section of
\* the last intersecting entry, and no link is active when none targets it.
C26_OneActiveLink ==
    /\ Cardinality(nav.active) <= 1
    /\ nav.active \subseteq dom.links
    /\ (nav.event = "spy" /\ nav.hit # null =>
           nav.active = (IF nav.hit \in dom.links THEN {nav.hit} ELSE {}))

\* C26 witness: the last intersecting section of a callback has no link, and
\* no link of the navigation is active.
C26_SectionWithoutLink ==
    /\ dom.links # {}
    /\ nav.event = "spy"
    /\ nav.hit = "contact"
    /\ nav.active = {}

\* C22: in app.js an error that a validation has put on a field goes away only
\* through a later validation of the field or through the debounce timer of
\* an input event that came after the error was shown, never through the
\* timer of an input event from before.
C22_ErrorStays ==
    [][\A n \in FormFields :
          (/\ variant = "app"
           /\ form.fields[n].marked
           /\ ~form'.fields[n].marked)
          => \/ form'.submits # form.submits
             \/ form'.timers = form.timers
             \/ \E t \in form.timers \ form'.timers :
                   /\ t.fn = "clearError"
                   /\ t.field = n
                   /\ t.text # "outdated"]_vars

\* C23: at most one banner is attached to the page, and the step that shows a
\* banner leaves that banner alone on the page.
C23_OneBanner ==
    /\ [](Len(form.banners) <= 1)
    /\ [][form'.created # form.created =>
            /\ Len(form'.banners) = 1
            /\ form'.banners[1].id = form'.created
            /\ form'.created = form.created + 1]_vars

\* C23 witness: a second banner was shown while the first was on the page; the
\* second is there alone and the first one's auto-hide timer is still pending.
C23_Replaced ==
    /\ form.created = 2
    /\ Len(form.banners) = 1
    /\ form.banners[1].id = 2
    /\ \E t \in TimersOf(form, "autoHide") : t.banner = 1

\* The timers of fm that hide or remove banner id.
BannerTimers(fm, id) ==
    {t \in fm.timers : t.fn \in {"autoHide", "remove"} /\ t.banner = id}

\* C24: when the auto-hide or the removal timer of a banner fires, every other
\* banner on the page stays attached as it is, with its own timers pending.
C24_OwnTimersOnly ==
    [][\A t \in form.timers \ form'.timers :
          t.fn \in {"autoHide", "remove"} =>
              \A i \in DOMAIN form.banners :
                  form.banners[i].id # t.banner =>
                      /\ \E j \in DOMAIN form'.banners :
                            form'.banners[j] = form.banners[i]
                      /\ BannerTimers(form', form.banners[i].id)
                           = BannerTimers(form, form.banners[i].id)]_vars

\* C24 witness: on the page of app.js the first banner was replaced and its
\* auto-hide timer has fired since; the second banner is on the page, not
\* sliding out, with its own timer pending.
C24_OldTimerFired ==
    /\ variant = "app"
    /\ form.created = 2
    /\ Len(form.banners) = 1
    /\ form.banners[1].id = 2
    /\ ~form.banners[1].hiding
    /\ BannerTimers(form, 1) = {Timer("remove", 300, 1, "", "")}
    /\ Timer("autoHide", 5000, 2, "", "") \in form.timers

\* C25: the submit button is disabled and labelled 'Sending...' while a
\* submission timer is pending, and enabled under the label of the markup
\* while none is.
C25_ButtonTracksPending ==
    IF TimersOf(form, "submitted") # {}
    THEN form.button.disabled /\ form.button.text = "Sending..."
    ELSE ~form.button.disabled /\ form.button.text = FormAtLoad.button.text

\* The calls that end a burst: the last call so far, and each call that the
\* next one follows by the delay or more.
BurstEnds ==
    {i \in DOMAIN deb.calls :
        \/ i = Len(deb.calls)
        \/ deb.calls[i + 1].at - deb.calls[i].at >= deb.delay}

\* C27: a call of the debounced function does not run func; func has run once
\* for each burst whose last call lies more than the delay back, at the delay
\* after that call and with its arguments, and never otherwise; at most one
\* timer is pending.
C27_Debounce ==
    /\ [][Len(deb'.calls) > Len(deb.calls) => deb'.runs = deb.runs]_vars
    /\ [](Cardinality(deb.pending) <= 1)
    /\ [](\A i \in BurstEnds :
            deb.calls[i].at + deb.delay < deb.now =>
                \E j \in DOMAIN deb.runs :
                    deb.runs[j] = [at |-> deb.calls[i].at + deb.delay,
                                   args |-> deb.calls[i].args])
    /\ [](\A j \in DOMAIN deb.runs :
            /\ \E i \in BurstEnds :
                  deb.runs[j] = [at |-> deb.calls[i].at + deb.delay,
                                 args |-> deb.calls[i].args]
            /\ \A k \in DOMAIN deb.runs : k < j => deb.runs[k].at < deb.runs[j].at)

\* C27 witness: a burst of two calls with different arguments, one tick
\* apart under a delay of two, was answered by one run with the second
\* call's arguments, two ticks after it.
C27_BurstAnswered ==
    /\ deb.delay = 2
    /\ deb.calls = <<[at |-> 0, args |-> "x"], [at |-> 1, args |-> "y"]>>
    /\ deb.runs = <<[at |-> 3, args |-> "y"]>>
    /\ deb.pending = {}

====
